---- MODULE Spec2Model ----
(***************************************************************************)
(* Model of media-player/player.go: the gin routes wired in main() and the *)
(* handlers behind them.  Every request is served by its own goroutine;    *)
(* the handlers of /media/* share the field api.currentPlayingMedia with   *)
(* no synchronisation.  A Go string is a two word header (data pointer,    *)
(* length); an unsynchronised load or store of it is two word accesses,    *)
(* in an order the compiler picks.                                         *)
(***************************************************************************)
EXTENDS Integers, Sequences, FiniteSets, TLC

\* ------------------------------------------------------------------ bounds
\* Largest number of objects the storage listing yields in one request.
MaxObjects == 2
\* Number of requests served in one run.
MaxRequests == 3

\* Goroutines serving requests (net/http starts one per connection).
Goroutines == {"g1", "g2"}
\* Keys of the objects in the bucket (unique within the bucket).
BucketKeys == {"a", "b", "c"}
\* Object names sent as objname parameters; they differ in length.
Names == {"x", "yy"}
\* Values of the objname form/query parameter; "" is a missing parameter.
ObjNames == Names \cup {""}
\* Routes registered on the gin engine.
Routes == {"list", "presign", "get", "pause", "set"}

\* Error texts of the storage collaborator (objectInfo.Err.Error(), err.Error()).
ListErrMsg == "list failed"
SignErrMsg == "sign failed"
BadRequestMsg == "No object name set, invalid request."

StatusOK == 200
StatusBadRequest == 400
StatusInternalServerError == 500

VARIABLES
  currentPlayingMedia,  \* api.currentPlayingMedia: string header [data, len]
  pc,                   \* position of each goroutine in its handler
  req,                  \* the request a goroutine serves: [route, objname]
  pend,                 \* word of the string header still to load or store
  playing,              \* header being loaded by GetPlayingMedia (line 268)
  doneCh,               \* doneCh of the listing: "none", "open", "closed"
  closes,               \* number of close(doneCh) executed in this request
  playListEntries,      \* local slice of ListObjectsHandler2
  playListEntry,        \* local playListEntry of the loop body
  firstObjectPresigned, \* local flag of ListObjectsHandler2
  storage,              \* what the storage client did for this request
  resp,                 \* response written to the gin context
  lastKey,              \* history: key of the last SetPlaying(k # "") not
                        \* followed by a PausePlaying, "" if none
  nreq                  \* requests dispatched so far

vars == <<currentPlayingMedia, pc, req, pend, playing, doneCh, closes,
          playListEntries, playListEntry, firstObjectPresigned, storage,
          resp, lastKey, nreq>>

listVars == <<doneCh, closes, playListEntries, playListEntry,
              firstObjectPresigned>>

\* ------------------------------------------------------------ Go strings
\* Header of the Go string with contents s.
Str(s) == [data |-> s, len |-> Len(s)]

\* A header that some single store wrote whole.
FullyWritten(h) == \E s \in ObjNames : h = Str(s)

\* minioClient.PresignedGetObject(...).String() on success.
PresignedURL(objectName) == "https://signed/" \o objectName

\* --------------------------------------------------------------- responses
NoResponse ==
  [status |-> 0, ctype |-> "", text |-> "", kind |-> "",
   playing |-> Str(""), inner |-> "", elems |-> <<>>]

\* gin c.String(status, text): a plain text body.
CString(status, text) ==
  [NoResponse EXCEPT !.status = status, !.ctype = "text/plain", !.text = text]

\* json.Marshal(playListEntries): a nil slice encodes as null, a non-nil
\* slice as an array of its elements in order.
Marshal(entries) ==
  IF entries = <<>> THEN [kind |-> "null", elems |-> <<>>]
                    ELSE [kind |-> "array", elems |-> entries]

\* gin c.JSON(status, string(doc)): the argument is a Go string, so the body
\* is one JSON string literal whose text is the marshalled document.
CJSONString(status, doc) ==
  [NoResponse EXCEPT !.status = status, !.ctype = "application/json",
                     !.kind = "string", !.inner = doc.kind,
                     !.elems = doc.elems]

\* gin c.JSON(status, gin.H{"playing": h, ...}): a JSON object.
CJSONObject(status, h) ==
  [NoResponse EXCEPT !.status = status, !.ctype = "application/json",
                     !.kind = "object", !.playing = h]

NoStorage == [yielded |-> <<>>, signCalls |-> 0, err |-> ""]
NoEntry == [Key |-> "", URL |-> ""]

\* ------------------------------------------------------------------- Init
Init ==
  /\ currentPlayingMedia = Str("")
  /\ pc = [g \in Goroutines |-> "idle"]
  /\ req = [g \in Goroutines |-> [route |-> "none", objname |-> ""]]
  /\ pend = [g \in Goroutines |-> ""]
  /\ playing = [g \in Goroutines |-> Str("")]
  /\ doneCh = [g \in Goroutines |-> "none"]
  /\ closes = [g \in Goroutines |-> 0]
  /\ playListEntries = [g \in Goroutines |-> <<>>]
  /\ playListEntry = [g \in Goroutines |-> NoEntry]
  /\ firstObjectPresigned = [g \in Goroutines |-> FALSE]
  /\ storage = [g \in Goroutines |-> NoStorage]
  /\ resp = [g \in Goroutines |-> NoResponse]
  /\ lastKey = ""
  /\ nreq = 0

\* ------------------------------------------------------------- dispatching
Free(g) == pc[g] \in {"idle", "done"}

EntryPC(route) ==
  CASE route = "list"    -> "list_enter"
    [] route = "presign" -> "presign_check"
    [] route = "get"     -> "get_log"
    [] route = "pause"   -> "pause_w1"
    [] route = "set"     -> "set_check"

\* The engine hands a new request to a goroutine, which starts its handler
\* with fresh locals.
Route(g, route, objname) ==
  /\ Free(g)
  /\ nreq < MaxRequests
  /\ nreq' = nreq + 1
  /\ req' = [req EXCEPT ![g] = [route |-> route, objname |-> objname]]
  /\ pc' = [pc EXCEPT ![g] = EntryPC(route)]
  /\ pend' = [pend EXCEPT ![g] = ""]
  /\ playing' = [playing EXCEPT ![g] = Str("")]
  /\ doneCh' = [doneCh EXCEPT ![g] = "none"]
  /\ closes' = [closes EXCEPT ![g] = 0]
  /\ playListEntries' = [playListEntries EXCEPT ![g] = <<>>]
  /\ playListEntry' = [playListEntry EXCEPT ![g] = NoEntry]
  /\ firstObjectPresigned' = [firstObjectPresigned EXCEPT ![g] = FALSE]
  /\ storage' = [storage EXCEPT ![g] = NoStorage]
  /\ resp' = [resp EXCEPT ![g] = NoResponse]
  /\ UNCHANGED <<currentPlayingMedia, lastKey>>

Dispatch(g) ==
  \E route \in Routes :
    \E objname \in (IF route \in {"presign", "set"} THEN ObjNames ELSE {""}) :
      Route(g, route, objname)

\* ------------------------------------------------------- /getpresign/v1
\* The emptiness test is missing: every objname is signed.
PresignCheck_NoGuard(g) ==
  /\ pc[g] = "presign_check"
  /\ pc' = [pc EXCEPT ![g] = "presign_sign"]
  /\ UNCHANGED <<currentPlayingMedia, req, pend, playing, listVars, storage,
                 resp, lastKey, nreq>>

\* Lines 294-298: a missing objname is answered 400 without signing.
PresignCheck(g) ==
  /\ pc[g] = "presign_check"
  /\ IF req[g].objname = ""
       THEN /\ resp' = [resp EXCEPT ![g] = CString(StatusBadRequest, BadRequestMsg)]
            /\ pc' = [pc EXCEPT ![g] = "done"]
       ELSE /\ pc' = [pc EXCEPT ![g] = "presign_sign"]
            /\ UNCHANGED resp
  /\ UNCHANGED <<currentPlayingMedia, req, pend, playing, listVars, storage,
                 lastKey, nreq>>

\* Lines 299-304: one PresignedGetObject call, which succeeds or fails.
PresignSign(g) ==
  /\ pc[g] = "presign_sign"
  /\ \E ok \in BOOLEAN :
       /\ storage' = [storage EXCEPT
            ![g].signCalls = @ + 1,
            ![g].err = IF ok THEN @ ELSE SignErrMsg]
       /\ resp' = [resp EXCEPT ![g] =
            IF ok THEN CString(StatusOK, PresignedURL(req[g].objname))
                  ELSE CString(StatusInternalServerError, SignErrMsg)]
  /\ pc' = [pc EXCEPT ![g] = "done"]
  /\ UNCHANGED <<currentPlayingMedia, req, pend, playing, listVars,
                 lastKey, nreq>>

\* ------------------------------------------------------------ /list/v1
\* The close is not deferred: the handler returns with the channel open.
DeferredClose_Missing(g) == UNCHANGED <<doneCh, closes>>

\* Line 171, run when the handler returns: defer close(doneCh).
DeferredClose(g) ==
  /\ doneCh' = [doneCh EXCEPT ![g] = "closed"]
  /\ closes' = [closes EXCEPT ![g] = @ + 1]

\* Lines 168-179: make the done channel, register its close, declare locals.
ListEnter(g) ==
  /\ pc[g] = "list_enter"
  /\ doneCh' = [doneCh EXCEPT ![g] = "open"]
  /\ playListEntries' = [playListEntries EXCEPT ![g] = <<>>]
  /\ firstObjectPresigned' = [firstObjectPresigned EXCEPT ![g] = FALSE]
  /\ pc' = [pc EXCEPT ![g] = "list_range"]
  /\ UNCHANGED <<currentPlayingMedia, req, pend, playing, closes,
                 playListEntry, storage, resp, lastKey, nreq>>

\* The errored ObjectInfo is skipped (continue) instead of ending the request.
ListRecvErr_Continue(g) ==
  /\ pc[g] = "list_range"
  /\ storage[g].err = ""
  /\ storage' = [storage EXCEPT ![g].err = ListErrMsg]
  /\ UNCHANGED <<currentPlayingMedia, pc, req, pend, playing, listVars, resp,
                 lastKey, nreq>>

\* Lines 182-186: the listing yields an ObjectInfo whose Err is set; the
\* handler answers 500 with the error text and returns.
ListRecvErr(g) ==
  /\ pc[g] = "list_range"
  /\ storage' = [storage EXCEPT ![g].err = ListErrMsg]
  /\ resp' = [resp EXCEPT ![g] = CString(StatusInternalServerError, ListErrMsg)]
  /\ DeferredClose(g)
  /\ pc' = [pc EXCEPT ![g] = "done"]
  /\ UNCHANGED <<currentPlayingMedia, req, pend, playing, playListEntries,
                 playListEntry, firstObjectPresigned, lastKey, nreq>>

\* Lines 182, 187-191: the listing yields the next object; the handler
\* builds its entry and tests firstObjectPresigned.
ListRecvObj(g) ==
  /\ pc[g] = "list_range"
  /\ Len(storage[g].yielded) < MaxObjects
  /\ \E k \in BucketKeys :
       /\ \A i \in 1..Len(storage[g].yielded) : storage[g].yielded[i] # k
       /\ storage' = [storage EXCEPT ![g].yielded = Append(@, k)]
       /\ playListEntry' = [playListEntry EXCEPT ![g] = [Key |-> k, URL |-> ""]]
  /\ pc' = [pc EXCEPT ![g] =
       IF ~firstObjectPresigned[g] THEN "list_presign" ELSE "list_append"]
  /\ UNCHANGED <<currentPlayingMedia, req, pend, playing, doneCh, closes,
                 playListEntries, firstObjectPresigned, resp, lastKey, nreq>>

\* Lines 195-201: PresignedGetObject for the current object.  On failure the
\* handler answers 500 and returns.  firstObjectPresigned is not assigned.
ListPresign(g) ==
  /\ pc[g] = "list_presign"
  /\ \E ok \in BOOLEAN :
       IF ok
         THEN /\ storage' = [storage EXCEPT ![g].signCalls = @ + 1]
              /\ playListEntry' = [playListEntry EXCEPT
                   ![g].URL = PresignedURL(playListEntry[g].Key)]
              /\ pc' = [pc EXCEPT ![g] = "list_append"]
              /\ UNCHANGED <<resp, doneCh, closes>>
         ELSE /\ storage' = [storage EXCEPT ![g].signCalls = @ + 1,
                                            ![g].err = SignErrMsg]
              /\ resp' = [resp EXCEPT ![g] =
                   CString(StatusInternalServerError, SignErrMsg)]
              /\ DeferredClose(g)
              /\ pc' = [pc EXCEPT ![g] = "done"]
              /\ UNCHANGED playListEntry
  /\ UNCHANGED <<currentPlayingMedia, req, pend, playing, playListEntries,
                 firstObjectPresigned, lastKey, nreq>>

\* The slice is replaced by the new entry instead of being appended to.
ListAppend_Overwrite(g) ==
  /\ pc[g] = "list_append"
  /\ playListEntries' = [playListEntries EXCEPT ![g] = <<playListEntry[g]>>]
  /\ pc' = [pc EXCEPT ![g] = "list_range"]
  /\ UNCHANGED <<currentPlayingMedia, req, pend, playing, doneCh, closes,
                 playListEntry, firstObjectPresigned, storage, resp, lastKey,
                 nreq>>

\* Line 203: playListEntries = append(playListEntries, playListEntry).
ListAppend(g) ==
  /\ pc[g] = "list_append"
  /\ playListEntries' = [playListEntries EXCEPT ![g] = Append(@, playListEntry[g])]
  /\ pc' = [pc EXCEPT ![g] = "list_range"]
  /\ UNCHANGED <<currentPlayingMedia, req, pend, playing, doneCh, closes,
                 playListEntry, firstObjectPresigned, storage, resp, lastKey,
                 nreq>>

\* Lines 204-212: the listing channel is closed, the loop ends; the slice is
\* marshalled (which cannot fail for this struct) and sent with c.JSON.
ListEnd(g) ==
  /\ pc[g] = "list_range"
  /\ resp' = [resp EXCEPT ![g] = CJSONString(StatusOK, Marshal(playListEntries[g]))]
  /\ DeferredClose(g)
  /\ pc' = [pc EXCEPT ![g] = "done"]
  /\ UNCHANGED <<currentPlayingMedia, req, pend, playing, playListEntries,
                 playListEntry, firstObjectPresigned, storage, lastKey, nreq>>

\* ------------------------------------------------------------- /media/*
Other(w) == IF w = "data" THEN "len" ELSE "data"

\* The store goes to a copy of the receiver (value receiver) and is lost.
StoreWord_Lost(h, w, s) == h

\* Store of one word of the header of string s into header h.
StoreWord(h, w, s) ==
  IF w = "data" THEN [h EXCEPT !.data = s] ELSE [h EXCEPT !.len = Len(s)]

\* Load of one word of header src into the local header dst.
LoadWord(dst, w, src) ==
  IF w = "data" THEN [dst EXCEPT !.data = src.data]
                ELSE [dst EXCEPT !.len = src.len]

\* Line 266: the field is read for the log line; the value is not kept.
GetLog(g) ==
  /\ pc[g] = "get_log"
  /\ pc' = [pc EXCEPT ![g] = "get_r1"]
  /\ UNCHANGED <<currentPlayingMedia, req, pend, playing, listVars, storage,
                 resp, lastKey, nreq>>

\* Line 268: load of the first word of api.currentPlayingMedia.
GetRead1(g) ==
  /\ pc[g] = "get_r1"
  /\ \E w \in {"data", "len"} :
       /\ playing' = [playing EXCEPT ![g] = LoadWord(@, w, currentPlayingMedia)]
       /\ pend' = [pend EXCEPT ![g] = Other(w)]
  /\ pc' = [pc EXCEPT ![g] = "get_r2"]
  /\ UNCHANGED <<currentPlayingMedia, req, listVars, storage, resp, lastKey,
                 nreq>>

\* Line 268: load of the second word.
GetRead2(g) ==
  /\ pc[g] = "get_r2"
  /\ playing' = [playing EXCEPT ![g] = LoadWord(@, pend[g], currentPlayingMedia)]
  /\ pend' = [pend EXCEPT ![g] = ""]
  /\ pc' = [pc EXCEPT ![g] = "get_respond"]
  /\ UNCHANGED <<currentPlayingMedia, req, listVars, storage, resp, lastKey,
                 nreq>>

\* Lines 267-271: c.JSON(200, {"playing": ..., "ts": ...}).
GetRespond(g) ==
  /\ pc[g] = "get_respond"
  /\ resp' = [resp EXCEPT ![g] = CJSONObject(StatusOK, playing[g])]
  /\ pc' = [pc EXCEPT ![g] = "done"]
  /\ UNCHANGED <<currentPlayingMedia, req, pend, playing, listVars, storage,
                 lastKey, nreq>>

\* Line 275: store of the first word of "" into api.currentPlayingMedia.
PauseWrite1(g) ==
  /\ pc[g] = "pause_w1"
  /\ \E w \in {"data", "len"} :
       /\ currentPlayingMedia' = StoreWord(currentPlayingMedia, w, "")
       /\ pend' = [pend EXCEPT ![g] = Other(w)]
  /\ pc' = [pc EXCEPT ![g] = "pause_w2"]
  /\ UNCHANGED <<req, playing, listVars, storage, resp, lastKey, nreq>>

\* Line 275: store of the second word.
PauseWrite2(g) ==
  /\ pc[g] = "pause_w2"
  /\ currentPlayingMedia' = StoreWord(currentPlayingMedia, pend[g], "")
  /\ pend' = [pend EXCEPT ![g] = ""]
  /\ pc' = [pc EXCEPT ![g] = "pause_respond"]
  /\ UNCHANGED <<req, playing, listVars, storage, resp, lastKey, nreq>>

\* Lines 276-277: c.String(200, "").
PauseRespond(g) ==
  /\ pc[g] = "pause_respond"
  /\ resp' = [resp EXCEPT ![g] = CString(StatusOK, "")]
  /\ lastKey' = ""
  /\ pc' = [pc EXCEPT ![g] = "done"]
  /\ UNCHANGED <<currentPlayingMedia, req, pend, playing, listVars, storage,
                 nreq>>

\* The emptiness test is missing: every objname is stored.
SetCheck_NoGuard(g) ==
  /\ pc[g] = "set_check"
  /\ pc' = [pc EXCEPT ![g] = "set_w1"]
  /\ UNCHANGED <<currentPlayingMedia, req, pend, playing, listVars, storage,
                 resp, lastKey, nreq>>

\* Lines 281-282: read the form field and test it for emptiness.
SetCheck(g) ==
  /\ pc[g] = "set_check"
  /\ pc' = [pc EXCEPT ![g] =
       IF req[g].objname # "" THEN "set_w1" ELSE "set_respond"]
  /\ UNCHANGED <<currentPlayingMedia, req, pend, playing, listVars, storage,
                 resp, lastKey, nreq>>

\* Line 283: store of the first word of objectName.
SetWrite1(g) ==
  /\ pc[g] = "set_w1"
  /\ \E w \in {"data", "len"} :
       /\ currentPlayingMedia' = StoreWord(currentPlayingMedia, w, req[g].objname)
       /\ pend' = [pend EXCEPT ![g] = Other(w)]
  /\ pc' = [pc EXCEPT ![g] = "set_w2"]
  /\ UNCHANGED <<req, playing, listVars, storage, resp, lastKey, nreq>>

\* Line 283: store of the second word.
SetWrite2(g) ==
  /\ pc[g] = "set_w2"
  /\ currentPlayingMedia' = StoreWord(currentPlayingMedia, pend[g], req[g].objname)
  /\ pend' = [pend EXCEPT ![g] = ""]
  /\ pc' = [pc EXCEPT ![g] = "set_log"]
  /\ UNCHANGED <<req, playing, listVars, storage, resp, lastKey, nreq>>

\* Line 284: the field is read back for the log line.
SetLog(g) ==
  /\ pc[g] = "set_log"
  /\ pc' = [pc EXCEPT ![g] = "set_respond"]
  /\ UNCHANGED <<currentPlayingMedia, req, pend, playing, listVars, storage,
                 resp, lastKey, nreq>>

\* Lines 286-287: c.String(200, objectName).
SetRespond(g) ==
  /\ pc[g] = "set_respond"
  /\ resp' = [resp EXCEPT ![g] = CString(StatusOK, req[g].objname)]
  /\ lastKey' = IF req[g].objname # "" THEN req[g].objname ELSE lastKey
  /\ pc' = [pc EXCEPT ![g] = "done"]
  /\ UNCHANGED <<currentPlayingMedia, req, pend, playing, listVars, storage,
                 nreq>>

\* ------------------------------------------------------------------- Next
\* One step of the handler goroutine g is running.
Step(g) ==
  \/ PresignCheck(g) \/ PresignSign(g)
  \/ ListEnter(g) \/ ListRecvErr(g) \/ ListRecvObj(g) \/ ListPresign(g)
  \/ ListAppend(g) \/ ListEnd(g)
  \/ GetLog(g) \/ GetRead1(g) \/ GetRead2(g) \/ GetRespond(g)
  \/ PauseWrite1(g) \/ PauseWrite2(g) \/ PauseRespond(g)
  \/ SetCheck(g) \/ SetWrite1(g) \/ SetWrite2(g) \/ SetLog(g) \/ SetRespond(g)

\* Requests are served concurrently, one goroutine each.
Next == \E g \in Goroutines : Dispatch(g) \/ Step(g)

Spec == Init /\ [][Next]_vars

\* Every started handler keeps running until it returns.
FairSpec == Spec /\ \A g \in Goroutines : WF_vars(Step(g))

\* Requests arrive one at a time: a request is dispatched only when no
\* handler is running.
SerialDispatch(g) == (\A h \in Goroutines : Free(h)) /\ Dispatch(g)

SerialNext == \E g \in Goroutines : SerialDispatch(g) \/ Step(g)

SerialSpec == Init /\ [][SerialNext]_vars

\* ================================================================ claims
ListDone(g) == pc[g] = "done" /\ req[g].route = "list"
PresignDone(g) == pc[g] = "done" /\ req[g].route = "presign"
GetDone(g) == pc[g] = "done" /\ req[g].route = "get"
SetDone(g) == pc[g] = "done" /\ req[g].route = "set"

\* A goroutine is between the two word accesses of one load or store of
\* api.currentPlayingMedia.
InAccess(g) == pc[g] \in {"get_r2", "pause_w2", "set_w2"}

\* C1: a successful listing of n >= 1 objects has a non-empty URL on exactly
\* its first entry and an empty URL on every later one, and PresignedGetObject
\* was called exactly once for the request.
C1_FirstOnlyPresigned ==
  \A g \in Goroutines :
    (ListDone(g) /\ resp[g].status = StatusOK /\ Len(resp[g].elems) >= 1) =>
      /\ resp[g].elems[1].URL # ""
      /\ \A i \in 2..Len(resp[g].elems) : resp[g].elems[i].URL = ""
      /\ storage[g].signCalls = 1

\* C2: once the listing or a presign call has reported an error the request
\* is over: the handler has returned, the response is 500 with exactly that
\* error as plain text and carries no playlist entries; a 200 response is
\* sent only when no error was reported.
C2_ErrorEndsRequest ==
  \A g \in Goroutines :
    req[g].route = "list" =>
      /\ storage[g].err # "" =>
           /\ pc[g] = "done"
           /\ resp[g] = CString(StatusInternalServerError, storage[g].err)
           /\ resp[g].elems = <<>> /\ resp[g].kind = "" /\ resp[g].inner = ""
      /\ (pc[g] = "done" /\ storage[g].err = "") =>
           resp[g].status = StatusOK /\ resp[g].text = ""

\* The listing failed after objects had been yielded and entries built.
C2_Witness ==
  \E g \in Goroutines :
    /\ ListDone(g)
    /\ storage[g].err = ListErrMsg
    /\ Len(playListEntries[g]) >= 1
    /\ resp[g].status = StatusInternalServerError

\* C3: with requests served one at a time, every GetPlaying answers 200 with
\* the key of the most recent non-empty SetPlaying not followed by a
\* PausePlaying, and with the empty key otherwise, whichever goroutine
\* served the earlier requests.
C3_GetReturnsLastKey ==
  [][\A g \in Goroutines :
       (pc[g] = "get_respond" /\ pc'[g] = "done") =>
         resp'[g] = CJSONObject(StatusOK, Str(lastKey))]_vars

\* A GetPlaying answered with a non-empty key set by an earlier SetPlaying.
C3_Witness ==
  \E g \in Goroutines :
    GetDone(g) /\ lastKey # "" /\ resp[g].playing = Str(lastKey)

\* C4: no step of a SetPlaying handler whose objname is empty changes
\* api.currentPlayingMedia, and the handler answers 200 with the empty key.
C4_EmptySetIsNoOp ==
  [][\A g \in Goroutines :
       (req[g].route = "set" /\ req[g].objname = "" /\ pc'[g] # pc[g]
          /\ ~Free(g)) =>
         /\ currentPlayingMedia' = currentPlayingMedia
         /\ pc'[g] = "done" => resp'[g] = CString(StatusOK, "")]_vars

\* An empty SetPlaying has returned and an earlier key is still set.
C4_Witness ==
  \E g \in Goroutines :
    /\ SetDone(g) /\ req[g].objname = ""
    /\ resp[g] = CString(StatusOK, "")
    /\ lastKey # "" /\ currentPlayingMedia = Str(lastKey)

\* C5: whenever no handler is running the field holds a key that one store
\* wrote whole, and every GetPlaying answered with such a key.
C5_NoTornKey ==
  /\ (\A g \in Goroutines : Free(g)) => FullyWritten(currentPlayingMedia)
  /\ \A g \in Goroutines : GetDone(g) => FullyWritten(resp[g].playing)

\* C6: no two handlers are inside an access of api.currentPlayingMedia at
\* the same time.
C6_AccessSerialized ==
  \A g \in Goroutines : \A h \in Goroutines :
    (g # h) => ~(InAccess(g) /\ InAccess(h))

\* C7: a presign request with an empty objname never calls
\* PresignedGetObject and is answered 400; one with a non-empty objname has,
\* when it returns, called it exactly once and is answered 200 with the URL
\* if the call succeeded and 500 with the error if it failed.
C7_PresignContract ==
  \A g \in Goroutines :
    req[g].route = "presign" =>
      /\ req[g].objname = "" => storage[g].signCalls = 0
      /\ pc[g] = "done" =>
           IF req[g].objname = ""
             THEN resp[g] = CString(StatusBadRequest, BadRequestMsg)
             ELSE /\ storage[g].signCalls = 1
                  /\ \/ /\ storage[g].err = ""
                        /\ resp[g] = CString(StatusOK, PresignedURL(req[g].objname))
                     \/ /\ storage[g].err = SignErrMsg
                        /\ resp[g] = CString(StatusInternalServerError, SignErrMsg)

\* A presign request without objname was answered 400.
C7_Witness ==
  \E g \in Goroutines :
    /\ PresignDone(g) /\ req[g].objname = ""
    /\ resp[g].status = StatusBadRequest

\* C8: a listing that yields no object and no error is answered 200 with a
\* body that is the empty JSON array.
C8_EmptyBucketIsEmptyArray ==
  \A g \in Goroutines :
    (ListDone(g) /\ storage[g].yielded = <<>> /\ storage[g].err = "") =>
      /\ resp[g].status = StatusOK
      /\ resp[g].kind = "array"
      /\ resp[g].elems = <<>>

\* C9: doneCh is never closed twice, it is closed exactly once when the
\* listing handler has returned, on whichever path, and every doneCh that
\* was opened is eventually closed.
C9_DoneClosedOnce ==
  /\ [](\A g \in Goroutines :
          /\ closes[g] <= 1
          /\ (doneCh[g] = "closed") <=> (closes[g] = 1)
          /\ ListDone(g) => doneCh[g] = "closed")
  /\ \A g \in Goroutines : (doneCh[g] = "open") ~> (doneCh[g] = "closed")

\* The handler returned early on a presign failure, with doneCh closed.
C9_Witness ==
  \E g \in Goroutines :
    /\ ListDone(g)
    /\ storage[g].err = SignErrMsg
    /\ resp[g].status = StatusInternalServerError
    /\ doneCh[g] = "closed"

\* C10: a successful listing carries one entry per object the listing
\* yielded, in the order yielded, each with the key of its object.
C10_EntriesFollowListing ==
  \A g \in Goroutines :
    (ListDone(g) /\ resp[g].status = StatusOK) =>
      /\ Len(resp[g].elems) = Len(storage[g].yielded)
      /\ \A i \in 1..Len(resp[g].elems) :
           resp[g].elems[i].Key = storage[g].yielded[i]

\* A successful listing of at least two objects.
C10_Witness ==
  \E g \in Goroutines :
    /\ ListDone(g) /\ resp[g].status = StatusOK
    /\ Len(storage[g].yielded) >= 2
====
